---- MODULE Spec2Model ----
(***************************************************************************)
(* TfidfTransformer of package nlp: Fit, Transform, FitTransform, Save and *)
(* Load, with the configuration setters.                                   *)
(*                                                                         *)
(* Spec        the setters, Fit, Transform and FitTransform on the         *)
(*             caller's matrix, called one at a time.                      *)
(* SpecPersist a model fitted on a training corpus or on the caller's      *)
(*             matrix, saved, loaded and applied, one call at a time.      *)
(* SpecRacing  a Fit on one goroutine racing with Transforms on another.   *)
(*                                                                         *)
(* Numbers.  A matrix cell is a pair <<num, sq>> standing for the real     *)
(* number num / sqrt(sq); <<0, 0>> is a cell the compressed-row matrix     *)
(* does not store (it reads as 0).  Weights are held in thousandths:       *)
(* math.Log of the small ratios that occur is tabulated to three decimals  *)
(* and weightPadding p contributes p * 1000.  Products, sums of squares    *)
(* and the division by the L2 norm are then exact.                         *)
(***************************************************************************)
EXTENDS Integers, Sequences, FiniteSets, TLC

VARIABLES matrix, transform, weightPadding, l2Normalization, stream,
          savedFrom, inflight, last

vars == <<matrix, transform, weightPadding, l2Normalization, stream,
          savedFrom, inflight, last>>

\* Bounds of the caller's term-document matrix: its number of cells
\* (rows x columns) and its largest term count.
MaxCells == 4
MaxVal == 1

\* L2 normalization options.
NoL2Normalization == 0
RowBasedL2Normalization == 1
ColBasedL2Normalization == 2

Paddings == {0, 1}

----------------------------------------------------------------------------
\* Cells and matrices

Absent == <<0, 0>>

Cell(x) == <<x, 1>>

Entries(kind) ==
  IF kind = "csr" THEN {Absent} \cup {Cell(x) : x \in 0..MaxVal}
  ELSE {Cell(x) : x \in 0..MaxVal}

\* The matrices a caller can hand in: mat.Dense (no ToCSR capability) and
\* sparse.CSR, whose stored entries may hold the value 0.
Matrices ==
  UNION {UNION {UNION {
    {[kind |-> k, store |-> "arg", r |-> r, c |-> c, e |-> e] :
       e \in [1..r -> [1..c -> Entries(k)]]}
    : c \in {c \in 1..MaxCells : r * c <= MaxCells}}
    : r \in 1..MaxCells} : k \in {"dense", "csr"}}

\* The corpus of the 3 terms x 4 documents scenario: term 0 in all 4
\* documents, term 1 in 2 documents, term 2 in none.
Scenario ==
  [kind |-> "dense", store |-> "arg", r |-> 3, c |-> 4,
   e |-> << <<Cell(1), Cell(1), Cell(1), Cell(1)>>,
            <<Cell(1), Cell(0), Cell(1), Cell(0)>>,
            <<Cell(0), Cell(0), Cell(0), Cell(0)>> >>]

NoMatrix == [kind |-> "none", store |-> "none", r |-> 0, c |-> 0, e |-> <<>>]

\* matrix.At(i, j)
At(M, i, j) == M.e[i][j][1]

\* matrix.(sparse.TypeConverter): sparse.CSR converts, mat.Dense does not.
IsTypeConv(M) == M.kind = "csr"

\* CSR.ToCSR returns the receiver itself.
ToCSR(M) == M

\* CSR.RowNNZ(i): the number of entries stored in row i.
RowNNZ(M, i) == Cardinality({j \in 1..M.c : M.e[i][j] # Absent})

----------------------------------------------------------------------------
\* The diagonal model

NilDIA == [nil |-> TRUE, m |-> 0, n |-> 0, data |-> <<>>]

\* sparse.NewDIA(m, n, diagonal)
NewDIA(m, n, diagonal) == [nil |-> FALSE, m |-> m, n |-> n, data |-> diagonal]

\* math.Log(float64(a) / float64(b)) to three decimals, in thousandths, for
\* 1 <= a, b <= 7.
LogTable ==
  << <<0, -693, -1099, -1386, -1609, -1792, -1946>>,
     <<693, 0, -405, -693, -916, -1099, -1253>>,
     <<1099, 405, 0, -288, -511, -693, -847>>,
     <<1386, 693, 288, 0, -223, -405, -560>>,
     <<1609, 916, 511, 223, 0, -182, -336>>,
     <<1792, 1099, 693, 405, 182, 0, -154>>,
     <<1946, 1253, 847, 560, 336, 154, 0>> >>

Log(a, b) == LogTable[a][b]

\* The fallback scan of row i: df counts the cells with At(i, j) != 0.
RECURSIVE ScanDf(_, _, _)
ScanDf(M, i, j) ==
  IF j > M.c THEN 0
  ELSE (IF At(M, i, j) # 0 THEN 1 ELSE 0) + ScanDf(M, i, j + 1)

\* weights[i] of Fit, by the path the matrix's type selects.
FitWeight(M, i, wp) ==
  IF M.kind = "csr"
    THEN Log(1 + M.c, 1 + RowNNZ(M, i)) + wp * 1000
    ELSE Log(1 + M.c, 1 + ScanDf(M, i, 1)) + wp * 1000

\* Fit with the model sized by the documents: NewDIA(m, n, weights).
FitSizedByDocuments(M, wp) ==
  LET in == IF IsTypeConv(M) THEN ToCSR(M) ELSE M
  IN NewDIA(in.r, in.c, [i \in 1..in.r |-> FitWeight(in, i, wp)])

\* Fit: the model stored for matrix M under weight padding wp.
Fit(M, wp) ==
  LET in == IF IsTypeConv(M) THEN ToCSR(M) ELSE M
  IN NewDIA(in.r, in.r, [i \in 1..in.r |-> FitWeight(in, i, wp)])

----------------------------------------------------------------------------
\* Transform

\* A multiply that scales the argument's rows where they are stored.
MulInPlace(dia, b) ==
  [kind |-> "csr", store |-> b.store, r |-> dia.m, c |-> b.c,
   e |-> [i \in 1..dia.m |-> [j \in 1..b.c |->
            LET p == dia.data[i] * At(b, i, j)
            IN IF p = 0 THEN Absent ELSE Cell(p)]]]

\* product.Mul(dia, b): row i of b scaled by the i-th diagonal weight, in the
\* receiver's own storage.  Only called with dia.n = b.r.
Mul(dia, b) ==
  [kind |-> "csr", store |-> "product", r |-> dia.m, c |-> b.c,
   e |-> [i \in 1..dia.m |-> [j \in 1..b.c |->
            LET p == dia.data[i] * At(b, i, j)
            IN IF p = 0 THEN Absent ELSE Cell(p)]]]

\* A transpose that leaves the product as it is.
NotTransposed(P) == P

\* product.T().(*sparse.CSC).ToCSR(), cloned into the product's storage.
Transposed(P) ==
  [kind |-> "csr", store |-> P.store, r |-> P.c, c |-> P.r,
   e |-> [j \in 1..P.c |-> [i \in 1..P.r |-> P.e[i][j]]]]

\* sum += Data[j] * Data[j] over the stored entries of a row.
RECURSIVE SumSquares(_, _)
SumSquares(row, j) ==
  IF j > Len(row) THEN 0
  ELSE (IF row[j] = Absent THEN 0 ELSE row[j][1] * row[j][1])
       + SumSquares(row, j + 1)

\* A normalization that divides by the sum of the entries, not by the square
\* root of the sum of their squares.
RECURSIVE SumEntries(_, _)
SumEntries(row, j) ==
  IF j > Len(row) THEN 0
  ELSE (IF row[j] = Absent THEN 0 ELSE row[j][1]) + SumEntries(row, j + 1)

NormalizedRowBySum(row) ==
  LET sum == SumEntries(row, 1)
  IN IF sum = 0 THEN row
     ELSE [j \in 1..Len(row) |->
             IF row[j] = Absent THEN Absent
             ELSE <<row[j][1], row[j][2] * sum * sum>>]

\* Data[j] /= math.Sqrt(sum) for the stored entries of a row; a row whose
\* sum is 0 is skipped.
NormalizedRow(row) ==
  LET sum == SumSquares(row, 1)
  IN IF sum = 0 THEN row
     ELSE [j \in 1..Len(row) |->
             IF row[j] = Absent THEN Absent ELSE <<row[j][1], row[j][2] * sum>>]

\* The normalization loop over rawProduct, in place.
Normalized(P) == [P EXCEPT !.e = [i \in 1..P.r |-> NormalizedRow(P.e[i])]]

\* The storage after product.Mul: the product written to its store, the
\* argument kept in its own.
AfterMul(in, product) ==
  [s \in {"arg", "product"} |->
     IF s = product.store THEN product ELSE IF s = "arg" THEN in ELSE NoMatrix]

\* Transform of matrix M by the transformer (model dia, normalization ln):
\* the outcome, the returned matrix, and the argument's storage afterwards.
\* product.Mul dereferences the model (a nil model panics) and panics with
\* mat.ErrShape when the model's columns differ from the matrix's rows; the
\* only return statement returns a nil error.
Transform(dia, ln, M) ==
  LET in == IF IsTypeConv(M) THEN ToCSR(M) ELSE M
  IN IF dia.nil \/ dia.n # in.r
       THEN [outcome |-> "panic", ret |-> NoMatrix, arg |-> M]
       ELSE
         LET product == Mul(dia, in)
             h0 == AfterMul(in, product)
             ps == product.store
             h1 == IF ln = ColBasedL2Normalization
                     THEN [h0 EXCEPT ![ps] = Transposed(h0[ps])] ELSE h0
             h2 == IF ln # NoL2Normalization
                     THEN [h1 EXCEPT ![ps] = Normalized(h1[ps])] ELSE h1
             h3 == IF ln = ColBasedL2Normalization
                     THEN [h2 EXCEPT ![ps] = Transposed(h2[ps])] ELSE h2
         IN [outcome |-> "ok", ret |-> h3[ps],
             arg |-> [h3["arg"] EXCEPT !.kind = M.kind, !.store = "arg"]]

\* A FitTransform that returns the weighted product without normalizing it.
FitTransformUnnormalized(wp, ln, M) ==
  LET in == IF IsTypeConv(M) THEN ToCSR(M) ELSE M
      dia == Fit(in, wp)
  IN [model |-> dia, res |-> Transform(dia, NoL2Normalization, in)]

\* FitTransform: t.Fit(matrix).Transform(matrix) on the converted matrix.
FitTransform(wp, ln, M) ==
  LET in == IF IsTypeConv(M) THEN ToCSR(M) ELSE M
      dia == Fit(in, wp)
  IN [model |-> dia, res |-> Transform(dia, ln, in)]

----------------------------------------------------------------------------
\* Persistence

\* DIA.MarshalBinaryTo: the dimensions, the number of weights, the weights.
Marshal(dia) == <<dia.m, dia.n, Len(dia.data)>> \o dia.data

\* DIA.UnmarshalBinaryFrom: a stream cut short does not decode.
Unmarshal(r) ==
  IF Len(r) < 3 \/ Len(r) < 3 + r[3]
    THEN [err |-> TRUE, model |-> NilDIA]
    ELSE [err |-> FALSE,
          model |-> NewDIA(r[1], r[2], SubSeq(r, 4, 3 + r[3]))]

\* Save: the bytes written, or a panic on the nil model.
Save(dia) ==
  IF dia.nil THEN [outcome |-> "panic", out |-> <<>>]
  ELSE [outcome |-> "ok", out |-> Marshal(dia)]

\* A Load that decodes straight into the stored model: a failed decode
\* leaves the empty model behind.
LoadInPlace(dia, r) ==
  LET d == Unmarshal(r)
  IN IF d.err THEN [outcome |-> "error", model |-> d.model]
     ELSE [outcome |-> "ok", model |-> d.model]

\* A Load that decodes and never installs the decoded model.
LoadDiscards(dia, r) ==
  LET d == Unmarshal(r)
  IN IF d.err THEN [outcome |-> "error", model |-> dia]
     ELSE [outcome |-> "ok", model |-> dia]

\* Load: the model stored afterwards and the error returned.
Load(dia, r) ==
  LET d == Unmarshal(r)
  IN IF d.err THEN [outcome |-> "error", model |-> dia]
     ELSE [outcome |-> "ok", model |-> d.model]

----------------------------------------------------------------------------
\* The transformer as a state machine: calls made one at a time

NoFlight == [active |-> FALSE, dia |-> NilDIA, vis |-> {}]

\* The transformer and the argument as a call found them.
NoPre ==
  [matrix |-> NoMatrix, transform |-> NilDIA, weightPadding |-> 0,
   l2Normalization |-> NoL2Normalization]

Pre ==
  [matrix |-> matrix, transform |-> transform, weightPadding |-> weightPadding,
   l2Normalization |-> l2Normalization]

\* The record of the last call: what was called, on what, how it ended, the
\* matrix returned and the bytes written or read.
Called(op, on, outcome, ret, out) ==
  [op |-> op, on |-> on, outcome |-> outcome, ret |-> ret, out |-> out,
   pre |-> NoPre, observed |-> NilDIA, racing |-> FALSE]

\* NewTfidfTransformer() and a caller holding one term-document matrix.
Init ==
  /\ matrix \in Matrices
  /\ transform = NilDIA
  /\ weightPadding = 0
  /\ l2Normalization = NoL2Normalization
  /\ stream = <<>>
  /\ savedFrom = NilDIA
  /\ inflight = NoFlight
  /\ last = Called("New", "none", "ok", NoMatrix, <<>>)

SetWeightPadding(wp) ==
  /\ weightPadding' = wp
  /\ last' = Called("SetWeightPadding", "none", "ok", NoMatrix, <<>>)
  /\ UNCHANGED <<matrix, transform, l2Normalization, stream, savedFrom, inflight>>

SetL2Normalization(ln) ==
  /\ l2Normalization' = ln
  /\ last' = Called("SetL2Normalization", "none", "ok", NoMatrix, <<>>)
  /\ UNCHANGED <<matrix, transform, weightPadding, stream, savedFrom, inflight>>

\* Fit on the caller's matrix.
FitMatrix ==
  /\ transform' = Fit(matrix, weightPadding)
  /\ last' = Called("Fit", "matrix", "ok", NoMatrix, <<>>)
  /\ UNCHANGED <<matrix, weightPadding, l2Normalization, stream, savedFrom, inflight>>

\* Fit on the scenario's training corpus.
FitScenario ==
  /\ transform' = Fit(Scenario, weightPadding)
  /\ last' = Called("Fit", "scenario", "ok", NoMatrix, <<>>)
  /\ UNCHANGED <<matrix, weightPadding, l2Normalization, stream, savedFrom, inflight>>

TransformMatrix ==
  LET res == Transform(transform, l2Normalization, matrix)
  IN /\ matrix' = res.arg
     /\ last' = [Called("Transform", "matrix", res.outcome, res.ret, <<>>)
                   EXCEPT !.pre = Pre]
     /\ UNCHANGED <<transform, weightPadding, l2Normalization, stream, savedFrom, inflight>>

FitTransformMatrix ==
  LET ft == FitTransform(weightPadding, l2Normalization, matrix)
  IN /\ transform' = ft.model
     /\ matrix' = ft.res.arg
     /\ last' = Called("FitTransform", "matrix", ft.res.outcome, ft.res.ret, <<>>)
     /\ UNCHANGED <<weightPadding, l2Normalization, stream, savedFrom, inflight>>

\* Save into a fresh buffer, kept as the stream a later Load reads.
SaveModel ==
  LET s == Save(transform)
  IN /\ stream' = IF s.outcome = "ok" THEN s.out ELSE stream
     /\ savedFrom' = IF s.outcome = "ok" THEN transform ELSE savedFrom
     /\ last' = Called("Save", "none", s.outcome, NoMatrix, s.out)
     /\ UNCHANGED <<matrix, transform, weightPadding, l2Normalization, inflight>>

\* Load from the first k values of the stream: all of it, or a truncated copy.
LoadModel(k) ==
  LET r == SubSeq(stream, 1, k)
      l == Load(transform, r)
  IN /\ transform' = l.model
     /\ last' = [Called("Load", "none", l.outcome, NoMatrix, r) EXCEPT !.pre = Pre]
     /\ UNCHANGED <<matrix, weightPadding, l2Normalization, stream, savedFrom, inflight>>

Next ==
  \/ \E wp \in Paddings : SetWeightPadding(wp)
  \/ \E ln \in {NoL2Normalization, RowBasedL2Normalization, ColBasedL2Normalization} :
       SetL2Normalization(ln)
  \/ FitMatrix
  \/ TransformMatrix
  \/ FitTransformMatrix

Spec == Init /\ [][Next]_vars

\* A model fitted on a training corpus or on the caller's matrix, saved,
\* loaded, and applied to the caller's matrix.
NextPersist ==
  \/ FitMatrix
  \/ FitScenario
  \/ SaveModel
  \/ TransformMatrix
  \/ \E k \in 0..Len(stream) : LoadModel(k)

SpecPersist == Init /\ [][NextPersist]_vars

----------------------------------------------------------------------------
\* Fit racing with Transform: no lock orders line 91's stores (the fields of
\* the new DIA and the pointer t.transform) against line 108's reads, so a
\* Transform on another goroutine sees each store or not, in any order.

Stores == {"m", "n", "data", "ptr"}

\* What a Transform reads as its model: the old one until the pointer store
\* is visible, then the new object with the fields visible so far (a field
\* not yet visible reads as the zero value of its allocation).
Observe(stored, fl) ==
  IF fl.active /\ "ptr" \in fl.vis
    THEN [nil |-> FALSE,
          m |-> IF "m" \in fl.vis THEN fl.dia.m ELSE 0,
          n |-> IF "n" \in fl.vis THEN fl.dia.n ELSE 0,
          data |-> IF "data" \in fl.vis THEN fl.dia.data ELSE <<>>]
    ELSE stored

\* A Fit starts on another goroutine: the weights are computed, no store is
\* visible yet.
FitBegin(M, on) ==
  /\ ~inflight.active
  /\ inflight' = [active |-> TRUE, dia |-> Fit(M, weightPadding), vis |-> {}]
  /\ last' = Called("FitBegin", on, "ok", NoMatrix, <<>>)
  /\ UNCHANGED <<matrix, transform, weightPadding, l2Normalization, stream, savedFrom>>

\* One of the Fit's stores becomes visible; with the last one the Fit is over.
FitStore(f) ==
  /\ inflight.active
  /\ f \notin inflight.vis
  /\ IF inflight.vis \cup {f} = Stores
       THEN /\ transform' = inflight.dia
            /\ inflight' = NoFlight
       ELSE /\ transform' = transform
            /\ inflight' = [inflight EXCEPT !.vis = @ \cup {f}]
  /\ last' = Called("FitStore", "none", "ok", NoMatrix, <<>>)
  /\ UNCHANGED <<matrix, weightPadding, l2Normalization, stream, savedFrom>>

\* A Transform of the caller's matrix, by the model it reads.
RacingTransform ==
  LET seen == Observe(transform, inflight)
      whole == seen.nil \/ Len(seen.data) = seen.m
      res == IF whole THEN Transform(seen, l2Normalization, matrix)
             ELSE [outcome |-> "undefined", ret |-> NoMatrix, arg |-> matrix]
  IN /\ matrix' = res.arg
     /\ last' = [Called("Transform", "matrix", res.outcome, res.ret, <<>>)
                   EXCEPT !.observed = seen, !.racing = inflight.active]
     /\ UNCHANGED <<transform, weightPadding, l2Normalization, stream, savedFrom, inflight>>

NextRacing ==
  \/ FitBegin(matrix, "matrix")
  \/ FitBegin(Scenario, "scenario")
  \/ \E f \in Stores : FitStore(f)
  \/ RacingTransform

SpecRacing == Init /\ [][NextRacing]_vars

----------------------------------------------------------------------------
\* Properties

\* The number of documents (columns) in which term i has a non-zero entry.
DocFreq(M, i) == Cardinality({j \in 1..M.c : At(M, i, j) # 0})

\* Entry (i, j) of the weighted product: the stored model times the matrix.
Weighted(i, j) == transform.data[i] * At(matrix, i, j)

RECURSIVE SumTo(_, _)
SumTo(f, k) == IF k = 0 THEN 0 ELSE f[k] + SumTo(f, k - 1)

\* The sums of squares of row i and of column j of the weighted product.
RowSquares(i) == SumTo([j \in 1..matrix.c |-> Weighted(i, j) * Weighted(i, j)], matrix.c)
ColSquares(j) == SumTo([i \in 1..matrix.r |-> Weighted(i, j) * Weighted(i, j)], matrix.r)

\* The caller's matrix with the same contents as a mat.Dense.
DenseOf(M) ==
  [M EXCEPT !.kind = "dense",
            !.e = [i \in 1..M.r |-> [j \in 1..M.c |-> Cell(At(M, i, j))]]]

Transformed == last.op \in {"Transform", "FitTransform"} /\ last.outcome = "ok"

\* C1: after Fit on an m x n matrix the model is m x m with m weights, weight
\* i being ln((1+n)/(1+df_i)) + weight_padding with df_i the number of
\* columns whose entry (i, j) is non-zero; in the 3 x 4 scenario the weights
\* are ln(5/5), ln(5/3), ln(5/1) plus the padding.
C1_FitWeights ==
  /\ (last.op = "Fit" /\ last.on = "matrix") =>
       transform = [nil |-> FALSE, m |-> matrix.r, n |-> matrix.r,
                    data |-> [i \in 1..matrix.r |->
                                Log(1 + matrix.c, 1 + DocFreq(matrix, i))
                                + weightPadding * 1000]]
  /\ (last.op = "Fit" /\ last.on = "scenario") =>
       transform = [nil |-> FALSE, m |-> 3, n |-> 3,
                    data |-> <<Log(5, 5) + weightPadding * 1000,
                               Log(5, 3) + weightPadding * 1000,
                               Log(5, 1) + weightPadding * 1000>>]

\* C2: Fit's fast path (RowNNZ of a compressed-row matrix) gives the weights
\* its fallback scan gives for a matrix of the same contents, stored zeros
\* included.
C2_PathsAgree ==
  (last.op = "Fit" /\ last.on = "matrix") =>
    transform.data = Fit(DenseOf(matrix), weightPadding).data

\* C3: Transform on a matrix whose row count differs from the model's
\* dimension returns an error and no result matrix.
C3_MismatchReturnsError ==
  (last.op = "Transform" /\ ~transform.nil /\ transform.n # matrix.r) =>
    (last.outcome = "error" /\ last.ret = NoMatrix)

\* C4: a Load whose decode fails returns the error and leaves the stored
\* model as it was; a Load whose decode succeeds stores exactly the decoded
\* model (dimensions and weights of the stream) in place of the previous one.
C4_LoadOnlyOnSuccess ==
  last.op = "Load" =>
    \/ /\ last.outcome = "error"
       /\ transform = last.pre.transform
       /\ Transform(transform, l2Normalization, matrix)
            = Transform(last.pre.transform, last.pre.l2Normalization, last.pre.matrix)
    \/ /\ last.outcome = "ok"
       /\ Len(last.out) = 3 + last.out[3]
       /\ transform = [nil |-> FALSE, m |-> last.out[1], n |-> last.out[2],
                       data |-> [i \in 1..last.out[3] |-> last.out[3 + i]]]

C4_Witness ==
  /\ last.op = "Load"
  /\ last.outcome = "error"
  /\ Len(last.out) >= 3
  /\ ~transform.nil
  /\ transform # savedFrom

\* C5: FitTransform returns what Fit followed by Transform on the same
\* matrix returns, and leaves the model Fit leaves.
C5_FitTransformIsFitThenTransform ==
  last.op = "FitTransform" =>
    LET dia == Fit(matrix, weightPadding)
        res == Transform(dia, l2Normalization, matrix)
    IN /\ transform = dia
       /\ last.outcome = res.outcome
       /\ last.ret = res.ret

C5_Witness ==
  /\ last.op = "FitTransform"
  /\ last.outcome = "ok"
  /\ weightPadding = 1
  /\ l2Normalization = ColBasedL2Normalization
  /\ \E i \in 1..last.ret.r : \E j \in 1..last.ret.c : last.ret.e[i][j][2] > 1

\* C6: in every normalization mode Transform leaves the stored model, the
\* configuration and the caller's matrix as they were, returns a matrix in
\* storage that is not the caller's, and a repeated call returns the same.
C6_TransformFrame ==
  last.op = "Transform" =>
    /\ transform = last.pre.transform
    /\ weightPadding = last.pre.weightPadding
    /\ l2Normalization = last.pre.l2Normalization
    /\ matrix = last.pre.matrix
    /\ last.outcome = "ok" => last.ret.store # matrix.store
    /\ Transform(transform, l2Normalization, matrix).ret = last.ret

C6_Witness ==
  /\ last.op = "Transform"
  /\ last.outcome = "ok"
  /\ l2Normalization = ColBasedL2Normalization
  /\ matrix.kind = "csr"
  /\ \E i \in 1..last.ret.r : \E j \in 1..last.ret.c : last.ret.e[i][j][2] > 1

\* C7: in row mode every entry of the result is the weighted product's entry
\* divided by its row's L2 norm, so a row that is not all-zero has sum of
\* squares 1, and a row whose sum of squares is 0 stays all-zero.
C7_RowMode ==
  (Transformed /\ l2Normalization = RowBasedL2Normalization) =>
    \A i \in 1..matrix.r :
      LET row == last.ret.e[i]
      IN IF RowSquares(i) = 0
           THEN \A j \in 1..matrix.c : row[j] = Absent
           ELSE /\ \A j \in 1..matrix.c :
                     row[j] = IF Weighted(i, j) = 0 THEN Absent
                              ELSE <<Weighted(i, j), RowSquares(i)>>
                \* sum of num^2 / sq over the row is 1
                /\ \E s \in {row[j][2] : j \in 1..matrix.c} \ {0} :
                     /\ \A j \in 1..matrix.c : row[j][2] \in {0, s}
                     /\ SumTo([j \in 1..matrix.c |-> row[j][1] * row[j][1]], matrix.c) = s

C7_Witness ==
  /\ Transformed
  /\ l2Normalization = RowBasedL2Normalization
  /\ \E i \in 1..matrix.r : \A j \in 1..matrix.c : last.ret.e[i][j][2] > 1
  /\ \E i \in 1..matrix.r : RowSquares(i) = 0
  /\ matrix.c > 1

\* C8: in column mode the result has the input's shape and orientation and
\* every entry is the weighted product's entry divided by its column's L2
\* norm: the row-mode result of the transposed product, transposed back.
C8_ColumnMode ==
  (Transformed /\ l2Normalization = ColBasedL2Normalization) =>
    /\ last.ret.r = matrix.r
    /\ last.ret.c = matrix.c
    /\ \A i \in 1..matrix.r : \A j \in 1..matrix.c :
         last.ret.e[i][j] =
           IF Weighted(i, j) = 0 THEN Absent
           ELSE <<Weighted(i, j), ColSquares(j)>>
    /\ last.ret = Transposed(Normalized(Transposed(Mul(transform, matrix))))

C8_Witness ==
  /\ Transformed
  /\ l2Normalization = ColBasedL2Normalization
  /\ matrix.r > 1
  /\ matrix.c > 1
  /\ \E j \in 1..matrix.c : \A i \in 1..matrix.r : last.ret.e[i][j][2] > 1
  /\ \E i \in 1..matrix.r : RowSquares(i) # ColSquares(1)

\* C9 as claimed: a Transform racing with a Fit uses either the model stored
\* before the Fit or the model the Fit produces, whole.
C9_RacingTransformSeesWholeModel ==
  [][last'.op = "Transform" =>
       \/ last'.observed = transform
       \/ inflight.active /\ last'.observed = inflight.dia]_vars

\* C9 as amended: a Transform that runs while no Fit is in progress uses the
\* model stored by the last completed Fit, whole (as many weights as its
\* dimension); only a Transform racing with a Fit can see less.
C9_SerialTransformSeesWholeModel ==
  (last.op = "Transform" /\ ~last.racing) =>
    /\ last.observed = transform
    /\ ~last.observed.nil =>
         /\ last.observed.m = last.observed.n
         /\ Len(last.observed.data) = last.observed.m

C9_Witness ==
  /\ last.op = "Transform"
  /\ ~last.racing
  /\ last.outcome = "ok"
  /\ last.observed = Fit(matrix, weightPadding)

====
